---- MODULE Spec2Model ----
(***************************************************************************)
(* Model of the maze search core of src/2.py: Node, StackFrontier,         *)
(* QueueFrontier, PriorityFrontier and Maze (constructor, is_valid,        *)
(* neighbors, heuristic, solve), and of the click handling of MazeGame.    *)
(*                                                                         *)
(* Conventions.  A position is the pair <<x, y>> with the 0-based          *)
(* coordinates of the code; None (a missing position) is <<>>.  Node       *)
(* objects live in the arena `nodes`; a reference to a node is its index   *)
(* there and 0 is the None parent.  heapq is library code: the heap list   *)
(* of PriorityFrontier is kept as the list of its (priority, counter,      *)
(* node) entries and heappop takes the least entry in the tuple order of   *)
(* Python, which is what heapq guarantees.                                 *)
(***************************************************************************)
EXTENDS Integers, Sequences, FiniteSets, TLC

VARIABLES
    text,       \* the lines of the maze file handed to Maze(filename)
    pc,         \* "new", "loadfail", "idle", "loop", "returned", "raised"
    maze,       \* the Maze object: grid, start, end, width, height
    algorithm,  \* solve's parameter
    nodes,      \* the Node objects solve has created in this run
    frontier,   \* the frontier object of the running solve
    explored,   \* solve's explored set
    node,       \* the node the last remove() returned (0: none yet)
    result,     \* what the last solve call gave back
    first,      \* history: what the very first solve call made, and its result
    game_state, \* MazeGame.state: 'menu' or 'solving' ("" where no game runs)
    solution,   \* MazeGame.solution
    current_step,   \* MazeGame.current_step
    cell_size,  \* MazeGame.cell_size (-1: the attribute is not set)
    click       \* history: the last click handled and the state it came in

\* the fields of the MazeGame object, self.maze being `maze`
game == <<game_state, solution, current_step, cell_size, click>>

vars == <<text, pc, maze, algorithm, nodes, frontier, explored, node, result,
          first, game_state, solution, current_step, cell_size, click>>

----------------------------------------------------------------------------
(* Bounds of the checked input families. *)

\* most cells (width x height) of a well-formed maze of Spec
MaxCells == 9
\* most cells of a well-formed maze of SpecSeq
SeqCells == 6
\* most lines, and longest line, of an arbitrary maze text of SpecAny
MaxLines == 2
MaxLineLen == 3
\* size and wall budget of the wide mazes of SpecWide
WideW == 5
WideH == 3
WideWalls == 3

\* most cells of a well-formed maze file of SpecGame
GameCells == 4

\* the frontier exerciser SpecPF: most nodes added, largest cost and heuristic
MaxNodes == 4
MaxCost == 1
MaxHeuristic == 1

----------------------------------------------------------------------------
(* Values *)

None == <<>>
NoMaze == [grid |-> <<>>, start |-> None, end |-> None, width |-> 0, height |-> 0]
NoFrontier == [kind |-> "none", frontier |-> <<>>, counter |-> 0]
NoResult == [kind |-> "pending", cells |-> <<>>, err |-> ""]

Abs(n) == IF n < 0 THEN -n ELSE n

\* Node(state, parent, action, cost, heuristic)
Node(state, parent, action, cost, heuristic) ==
    [state |-> state, parent |-> parent, action |-> action,
     cost |-> cost, heuristic |-> heuristic]

----------------------------------------------------------------------------
(* Maze.load_maze, Maze.find_position, Maze.__init__ *)

\* the characters str.isspace() holds of, which str.strip() removes: space,
\* tab, line feed, carriage return, form feed, then U+000B, U+001C..U+001F,
\* U+0085, U+00A0 and U+1680 written as themselves (U+2000..U+200A, U+2028,
\* U+2029, U+202F, U+205F and U+3000 are whitespace too, but no string of
\* this language can hold them)
Whitespace ==
    {" ", "\t", "\n", "\r", "\f", "", "", "", "", "", "", " ", " "}

IsSpace(c) == c \in Whitespace

RECURSIVE LStrip(_)
LStrip(line) ==
    IF line # <<>> /\ IsSpace(Head(line)) THEN LStrip(Tail(line)) ELSE line

RECURSIVE RStrip(_)
RStrip(line) ==
    IF line # <<>> /\ IsSpace(line[Len(line)])
    THEN RStrip(SubSeq(line, 1, Len(line) - 1))
    ELSE line

\* str.strip(): leading and trailing whitespace removed
Strip(line) == RStrip(LStrip(line))

\* [list(line.strip()) for line in f]
load_maze(lines) == [i \in 1..Len(lines) |-> Strip(lines[i])]

Min(S) == CHOOSE n \in S : \A k \in S : n <= k

\* the first cell, rows top to bottom and each row left to right, holding
\* char, as (x, y); None when no cell holds it
find_position(grid, char) ==
    LET rows == {y \in 1..Len(grid) :
                    \E x \in 1..Len(grid[y]) : grid[y][x] = char}
    IN  IF rows = {} THEN None
        ELSE LET y == Min(rows)
                 x == Min({k \in 1..Len(grid[y]) : grid[y][k] = char})
             IN  <<x - 1, y - 1>>

\* Maze.__init__ raises (IndexError at self.grid[0]) when the file has no line
Maze_init_raises(lines) == Len(load_maze(lines)) = 0

\* the fields Maze.__init__ sets
Maze_init(lines) ==
    LET grid == load_maze(lines)
    IN  [grid |-> grid,
         start |-> find_position(grid, "A"),
         end |-> find_position(grid, "B"),
         width |-> Len(grid[1]),
         height |-> Len(grid)]

----------------------------------------------------------------------------
(* Maze.is_valid, Maze.neighbors, Maze.heuristic *)

InBounds(m, x, y) == 0 <= x /\ x < m.width /\ 0 <= y /\ y < m.height

\* is_valid raises IndexError: in bounds of width x height, but row y is
\* shorter than width
is_valid_raises(m, x, y) == InBounds(m, x, y) /\ x >= Len(m.grid[y + 1])

\* faulty variant of is_valid: the wall test dropped
is_valid_nowall(m, x, y) == InBounds(m, x, y)

is_valid(m, x, y) == InBounds(m, x, y) /\ m.grid[y + 1][x + 1] # "#"

\* faulty variant of candidates: "down" listed before "up"
candidates_downfirst(state) ==
    LET x == state[1]
        y == state[2]
    IN  << <<"down", <<x, y + 1>> >>,
           <<"up", <<x, y - 1>> >>,
           <<"left", <<x - 1, y>> >>,
           <<"right", <<x + 1, y>> >> >>

\* faulty variant of candidates: "left" steps to x + 1
candidates_leftslip(state) ==
    LET x == state[1]
        y == state[2]
    IN  << <<"up", <<x, y - 1>> >>,
           <<"down", <<x, y + 1>> >>,
           <<"left", <<x + 1, y>> >>,
           <<"right", <<x + 1, y>> >> >>

candidates(state) ==
    LET x == state[1]
        y == state[2]
    IN  << <<"up", <<x, y - 1>> >>,
           <<"down", <<x, y + 1>> >>,
           <<"left", <<x - 1, y>> >>,
           <<"right", <<x + 1, y>> >> >>

neighbors_raises(m, state) ==
    \E i \in 1..Len(candidates(state)) :
        is_valid_raises(m, candidates(state)[i][2][1], candidates(state)[i][2][2])

neighbors(m, state) ==
    LET Keep(c) == is_valid(m, c[2][1], c[2][2])
    IN  SelectSeq(candidates(state), Keep)

heuristic(m, state) ==
    Abs(state[1] - m.end[1]) + Abs(state[2] - m.end[2])

\* heuristic raises TypeError unpacking a None position
heuristic_raises(m, state) == state = None \/ m.end = None

----------------------------------------------------------------------------
(* The frontiers.  A frontier object is [kind, frontier, counter]; counter  *)
(* is the field of PriorityFrontier alone and stays 0 in the two others.    *)
(* remove gives [node, frontier]: the node returned and the object after.   *)

StackFrontier == [kind |-> "stack", frontier |-> <<>>, counter |-> 0]
QueueFrontier == [kind |-> "queue", frontier |-> <<>>, counter |-> 0]
PriorityFrontier == [kind |-> "priority", frontier |-> <<>>, counter |-> 0]

\* self.frontier.append(node)
StackFrontier_add(f, ns, n) == [f EXCEPT !.frontier = Append(@, n)]

\* any(node.state == state for node in self.frontier)
StackFrontier_contains_state(f, ns, state) ==
    \E i \in 1..Len(f.frontier) : ns[f.frontier[i]].state = state

\* faulty variant of StackFrontier_remove: the node read but left in the list
StackFrontier_remove_kept(f) ==
    [node |-> f.frontier[Len(f.frontier)], frontier |-> f]

\* faulty variant of StackFrontier_remove: index 0 in place of -1
StackFrontier_remove_first(f) ==
    [node |-> f.frontier[1],
     frontier |-> [f EXCEPT !.frontier = SubSeq(@, 1, Len(@) - 1)]]

\* node = self.frontier[-1]; self.frontier = self.frontier[:-1]
StackFrontier_remove(f) ==
    [node |-> f.frontier[Len(f.frontier)],
     frontier |-> [f EXCEPT !.frontier = SubSeq(@, 1, Len(@) - 1)]]

\* faulty variant of QueueFrontier_remove: the override missing, the stack's remove
QueueFrontier_remove_inherited(f) ==
    [node |-> f.frontier[Len(f.frontier)],
     frontier |-> [f EXCEPT !.frontier = SubSeq(@, 1, Len(@) - 1)]]

\* node = self.frontier[0]; self.frontier = self.frontier[1:]
QueueFrontier_remove(f) ==
    [node |-> f.frontier[1],
     frontier |-> [f EXCEPT !.frontier = Tail(@)]]

\* faulty variant of Priority: the cost left out of the priority
Priority_heuristic_only(n) == n.heuristic

\* the priority pushed with a node: node.cost + node.heuristic
Priority(n) == n.cost + n.heuristic

\* Node.__lt__
Node_lt(a, b) == (a.cost + a.heuristic) < (b.cost + b.heuristic)

\* heappush(self.frontier, (node.cost + node.heuristic, self.counter, node));
\* self.counter += 1
PriorityFrontier_add(f, ns, n) ==
    [f EXCEPT !.frontier = Append(@, <<Priority(ns[n]), f.counter, n>>),
              !.counter = @ + 1]

\* any(node.state == state for _, _, node in self.frontier)
PriorityFrontier_contains_state(f, ns, state) ==
    \E i \in 1..Len(f.frontier) : ns[f.frontier[i][3]].state = state

\* Python's order of the (priority, counter, node) tuples in the heap
EntryLess(ns, a, b) ==
    \/ a[1] < b[1]
    \/ a[1] = b[1] /\ a[2] < b[2]
    \/ a[1] = b[1] /\ a[2] = b[2] /\ Node_lt(ns[a[3]], ns[b[3]])

\* the index of the entry heappop takes: the least one
HeapTop(f, ns) ==
    CHOOSE i \in 1..Len(f.frontier) :
        \A j \in 1..Len(f.frontier) :
            j # i => ~EntryLess(ns, f.frontier[j], f.frontier[i])

\* s without its i-th element
RemoveAt(s, i) == SubSeq(s, 1, i - 1) \o SubSeq(s, i + 1, Len(s))

\* heapq.heappop(self.frontier)[2]
PriorityFrontier_remove(f, ns) ==
    LET i == HeapTop(f, ns)
    IN  [node |-> f.frontier[i][3],
         frontier |-> [f EXCEPT !.frontier = RemoveAt(@, i)]]

\* len(self.frontier) == 0, the same in the three classes
empty(f) == Len(f.frontier) = 0

\* remove raises Exception("empty frontier"): if self.empty(), the same in
\* the three classes
remove_raises(f) == empty(f)

\* the method the object's class gives
add(f, ns, n) ==
    IF f.kind = "priority" THEN PriorityFrontier_add(f, ns, n)
    ELSE StackFrontier_add(f, ns, n)

contains_state(f, ns, state) ==
    IF f.kind = "priority" THEN PriorityFrontier_contains_state(f, ns, state)
    ELSE StackFrontier_contains_state(f, ns, state)

remove(f, ns) ==
    CASE f.kind = "priority" -> PriorityFrontier_remove(f, ns)
      [] f.kind = "queue" -> QueueFrontier_remove(f)
      [] OTHER -> StackFrontier_remove(f)

----------------------------------------------------------------------------
(* Maze.solve *)

Algorithms == {"bfs", "dfs", "greedy", "astar"}

\* faulty variant of Known: a final else that goes on instead of raising
Known_any(alg) == TRUE

\* solve goes on with this name; with any other it raises ValueError
Known(alg) == alg \in Algorithms

\* the frontier solve creates for a supported algorithm name
NewFrontier(alg) ==
    CASE alg = "bfs" -> QueueFrontier
      [] alg = "dfs" -> StackFrontier
      [] OTHER -> PriorityFrontier

\* faulty variant of Searching: while True
Searching_always(f) == TRUE

\* the condition of solve's loop: while not frontier.empty()
Searching(f) == ~empty(f)

\* faulty variant of NewExplored: the explored set kept from the call before
NewExplored_kept == explored

\* explored = set()
NewExplored == {}

\* faulty variant of Child: the greedy branch gone, greedy nodes made as astar's
Child_costed(m, alg, ns, parent, action, state) ==
    LET cost == ns[parent].cost + 1
    IN  IF alg \in {"greedy", "astar"}
        THEN Node(state, parent, action, cost, heuristic(m, state))
        ELSE Node(state, parent, action, cost, 0)

\* the child node solve builds for a neighbour of the node `parent`
Child(m, alg, ns, parent, action, state) ==
    LET cost == ns[parent].cost + 1
    IN  CASE alg = "greedy" ->
                Node(state, parent, action, 0, heuristic(m, state))
          [] alg = "astar" ->
                Node(state, parent, action, cost, heuristic(m, state))
          [] OTHER ->
                Node(state, parent, action, cost, 0)

\* faulty variant of Fresh: the frontier not looked at
Fresh_explored_only(f, ns, expl, state) == state \notin expl

\* faulty variant of Fresh: the explored set not looked at
Fresh_frontier_only(f, ns, expl, state) == ~contains_state(f, ns, state)

\* whether solve inserts a child for a neighbour
Fresh(f, ns, expl, state) ==
    state \notin expl /\ ~contains_state(f, ns, state)

\* the for loop over self.neighbors(node.state), from the i-th neighbour on:
\* the arena and the frontier after it
RECURSIVE Expand(_, _, _, _, _, _, _, _)
Expand(m, alg, ns, f, expl, parent, nbrs, i) ==
    IF i > Len(nbrs) THEN [nodes |-> ns, frontier |-> f]
    ELSE IF Fresh(f, ns, expl, nbrs[i][2])
         THEN LET ns2 == Append(ns, Child(m, alg, ns, parent, nbrs[i][1], nbrs[i][2]))
              IN  Expand(m, alg, ns2, add(f, ns2, Len(ns2)), expl, parent, nbrs, i + 1)
         ELSE Expand(m, alg, ns, f, expl, parent, nbrs, i + 1)

\* faulty variant of Collect: while node is not None, so the root's state is taken too
RECURSIVE Collect_with_root(_, _)
Collect_with_root(ns, n) ==
    IF n = 0 THEN <<>>
    ELSE <<ns[n].state>> \o Collect_with_root(ns, ns[n].parent)

\* while node.parent is not None: cells.append(node.state); node = node.parent
RECURSIVE Collect(_, _)
Collect(ns, n) ==
    IF ns[n].parent = 0 THEN <<>>
    ELSE <<ns[n].state>> \o Collect(ns, ns[n].parent)

\* the node that walk ends at, which solve's variable node then holds
RECURSIVE RootOf(_, _)
RootOf(ns, n) == IF ns[n].parent = 0 THEN n ELSE RootOf(ns, ns[n].parent)

Reverse(s) == [i \in 1..Len(s) |-> s[Len(s) + 1 - i]]

\* faulty variant of PathOf: cells.reverse() left out
PathOf_unreversed(ns, n) == Collect(ns, n)

\* the list solve returns at the goal node
PathOf(ns, n) == Reverse(Collect(ns, n))

Returned(cells) == [kind |-> "path", cells |-> cells, err |-> ""]
\* faulty variant of ReturnedNone: raise Exception("no solution") in place of return None
ReturnedNone_raise == [kind |-> "error", cells |-> <<>>, err |-> "Exception"]
ReturnedNone == [kind |-> "nopath", cells |-> <<>>, err |-> ""]
Raised(e) == [kind |-> "error", cells |-> <<>>, err |-> e]

\* the while loop of solve from a loop head on, to what solve gives back
RECURSIVE Search(_, _, _, _, _)
Search(m, alg, ns, f, expl) ==
    IF ~Searching(f) THEN ReturnedNone
    ELSE IF remove_raises(f) THEN Raised("Exception")
    ELSE LET r == remove(f, ns)
             cell == ns[r.node].state
         IN  IF cell = m.end THEN Returned(PathOf(ns, r.node))
             ELSE IF neighbors_raises(m, cell) THEN Raised("IndexError")
             ELSE LET e == Expand(m, alg, ns, r.frontier, expl \cup {cell},
                                  r.node, neighbors(m, cell), 1)
                  IN  Search(m, alg, e.nodes, e.frontier, expl \cup {cell})

\* maze.solve(alg) as one call: what it returns, or that it raises
solve(m, alg) ==
    IF heuristic_raises(m, m.start) THEN Raised("TypeError")
    ELSE IF ~Known(alg) THEN Raised("ValueError")
    ELSE LET ns == <<Node(m.start, 0, "None", 0, heuristic(m, m.start))>>
         IN  Search(m, alg, ns, add(NewFrontier(alg), ns, 1), {})

----------------------------------------------------------------------------
(* The input families *)

Cells(W, H) == {<<x, y>> : x \in 0..(W - 1), y \in 0..(H - 1)}

\* the text of the W x H maze with start a, goal b and the given wall cells
MazeText(W, H, a, b, walls) ==
    [r \in 1..H |->
        [c \in 1..W |->
            CASE <<c - 1, r - 1>> = a -> "A"
              [] <<c - 1, r - 1>> = b -> "B"
              [] <<c - 1, r - 1>> \in walls -> "#"
              [] OTHER -> "."]]

\* the (width, height) pairs of at most n cells
Shapes(n) == {s \in (1..n) \X (1..n) : s[1] * s[2] <= n}

\* the (start, goal) pairs of a W x H grid
Ends(W, H) == {p \in Cells(W, H) \X Cells(W, H) : p[1] # p[2]}

\* the sets of at most k cells of S
RECURSIVE FewOf(_, _)
FewOf(S, k) ==
    IF k = 0 THEN {{}}
    ELSE LET fewer == FewOf(S, k - 1)
         IN  fewer \cup {T \cup {c} : T \in fewer, c \in S}

Chars == {"#", ".", "A", "B", " ", "\t"}

\* every text of at most maxLines lines of at most maxLen characters
Texts(maxLines, maxLen) ==
    LET Line == UNION {[1..n -> Chars] : n \in 0..maxLen}
    IN  UNION {[1..k -> Line] : k \in 0..maxLines}

\* the algorithm names a caller passes: the four supported ones and another
AlgorithmNames == Algorithms \cup {"dijkstra"}

----------------------------------------------------------------------------
(* Actions *)

\* the history variable `first`: the algorithm and the result of the first
\* solve call that ended, how many calls have ended since the start (counted
\* up to 3) and whether one of them ran another algorithm; Unset until the
\* first call ends, and Untracked where no history is kept
Unset == [alg |-> "", result |-> NoResult, calls |-> 0, mixed |-> FALSE]
Untracked == [alg |-> "-", result |-> NoResult, calls |-> 0, mixed |-> FALSE]

Record(alg, res) ==
    CASE first = Untracked -> first
      [] first = Unset ->
            [alg |-> alg, result |-> res, calls |-> 1, mixed |-> FALSE]
      [] OTHER ->
            [first EXCEPT !.calls = IF @ < 3 THEN @ + 1 ELSE @,
                          !.mixed = @ \/ alg # first.alg]

\* the click history before any click
NoClick == [state |-> "", region |-> "", solved |-> FALSE]

\* no MazeGame object: Maze and its solve are used on their own
NoGame ==
    /\ game_state = ""
    /\ solution = ReturnedNone
    /\ current_step = 0
    /\ cell_size = -1
    /\ click = NoClick

\* before Maze(filename), the file holding the lines t
InitFrom(t, history) ==
    /\ text = t
    /\ pc = "new"
    /\ maze = NoMaze
    /\ algorithm = ""
    /\ nodes = <<>>
    /\ frontier = NoFrontier
    /\ explored = {}
    /\ node = 0
    /\ result = NoResult
    /\ first = history
    /\ NoGame

\* a well-formed maze of at most n cells: one A, one B, walls anywhere else
InitValid(n, history) ==
    \E s \in Shapes(n) :
        \E p \in Ends(s[1], s[2]) :
            \E walls \in SUBSET (Cells(s[1], s[2]) \ {p[1], p[2]}) :
                InitFrom(MazeText(s[1], s[2], p[1], p[2], walls), history)

\* maze = Maze(filename)
MazeNew ==
    /\ pc = "new"
    /\ IF Maze_init_raises(text)
       THEN pc' = "loadfail" /\ maze' = NoMaze
       ELSE pc' = "idle" /\ maze' = Maze_init(text)
    /\ UNCHANGED <<text, algorithm, nodes, frontier, explored, node, result, first>>
    /\ UNCHANGED game

\* maze.solve(alg), up to the head of the while loop
SolveCall(alg) ==
    /\ pc \in {"idle", "returned", "raised"}
    /\ algorithm' = alg
    /\ IF heuristic_raises(maze, maze.start)
       THEN /\ nodes' = <<>>
            /\ frontier' = NoFrontier
            /\ explored' = {}
            /\ result' = Raised("TypeError")
            /\ pc' = "raised"
            /\ first' = Record(alg, result')
       ELSE LET start == Node(maze.start, 0, "None", 0, heuristic(maze, maze.start))
            IN  /\ nodes' = <<start>>
                /\ IF Known(alg)
                   THEN /\ frontier' = add(NewFrontier(alg), nodes', 1)
                        /\ explored' = NewExplored
                        /\ result' = NoResult
                        /\ pc' = "loop"
                        /\ first' = first
                   ELSE /\ frontier' = NoFrontier
                        /\ explored' = {}
                        /\ result' = Raised("ValueError")
                        /\ pc' = "raised"
                        /\ first' = Record(alg, result')
    /\ node' = 0
    /\ UNCHANGED <<text, maze>>
    /\ UNCHANGED game

\* the while loop ends: return None
SolveExhausted ==
    /\ pc = "loop"
    /\ ~Searching(frontier)
    /\ result' = ReturnedNone
    /\ pc' = "returned"
    /\ first' = Record(algorithm, result')
    /\ UNCHANGED <<text, maze, algorithm, nodes, frontier, explored, node>>
    /\ UNCHANGED game

\* one iteration that removes the goal node: return cells
SolveGoal ==
    /\ pc = "loop"
    /\ Searching(frontier)
    /\ ~remove_raises(frontier)
    /\ LET r == remove(frontier, nodes)
       IN  /\ nodes[r.node].state = maze.end
           /\ frontier' = r.frontier
           /\ result' = Returned(PathOf(nodes, r.node))
           /\ node' = RootOf(nodes, r.node)
    /\ pc' = "returned"
    /\ first' = Record(algorithm, result')
    /\ UNCHANGED <<text, maze, algorithm, nodes, explored>>
    /\ UNCHANGED game

\* one iteration that does not remove the goal node: remove raises, or the
\* removed node is expanded
SolveExpand ==
    /\ pc = "loop"
    /\ Searching(frontier)
    /\ IF remove_raises(frontier)
       THEN /\ result' = Raised("Exception")
            /\ pc' = "raised"
            /\ first' = Record(algorithm, result')
            /\ UNCHANGED <<nodes, frontier, explored, node>>
       ELSE LET r == remove(frontier, nodes)
                state == nodes[r.node].state
            IN  /\ state # maze.end
                /\ node' = r.node
                /\ explored' = explored \cup {state}
                /\ IF neighbors_raises(maze, state)
                   THEN /\ frontier' = r.frontier
                        /\ nodes' = nodes
                        /\ result' = Raised("IndexError")
                        /\ pc' = "raised"
                        /\ first' = Record(algorithm, result')
                   ELSE LET e == Expand(maze, algorithm, nodes, r.frontier,
                                        explored', r.node,
                                        neighbors(maze, state), 1)
                        IN  /\ frontier' = e.frontier
                            /\ nodes' = e.nodes
                            /\ result' = result
                            /\ pc' = "loop"
                            /\ first' = first
    /\ UNCHANGED <<text, maze, algorithm>>
    /\ UNCHANGED game

Next ==
    \/ MazeNew
    \/ \E alg \in AlgorithmNames : SolveCall(alg)
    \/ SolveExhausted
    \/ SolveGoal
    \/ SolveExpand

\* the well-formed mazes of at most MaxCells cells
Init == InitValid(MaxCells, Untracked)
Spec == Init /\ [][Next]_vars

\* the same of at most SeqCells cells, with the history of the first call
InitSeq == InitValid(SeqCells, Unset)
SpecSeq == InitSeq /\ [][Next]_vars

\* arbitrary small texts
InitAny == \E t \in Texts(MaxLines, MaxLineLen) : InitFrom(t, Untracked)
SpecAny == InitAny /\ [][Next]_vars

\* the well-formed WideW x WideH mazes with at most WideWalls walls, solved
\* with astar
InitWide ==
    \E p \in Ends(WideW, WideH) :
        \E walls \in FewOf(Cells(WideW, WideH) \ {p[1], p[2]}, WideWalls) :
            InitFrom(MazeText(WideW, WideH, p[1], p[2], walls), Untracked)
NextWide ==
    \/ MazeNew
    \/ SolveCall("astar")
    \/ SolveExhausted
    \/ SolveGoal
    \/ SolveExpand
SpecWide == InitWide /\ [][NextWide]_vars

----------------------------------------------------------------------------
(* A PriorityFrontier used on its own: any sequence of add and remove *)

InitPF ==
    /\ text = <<>>
    /\ pc = "frontier"
    /\ maze = NoMaze
    /\ algorithm = ""
    /\ nodes = <<>>
    /\ frontier = PriorityFrontier
    /\ explored = {}
    /\ node = 0
    /\ result = NoResult
    /\ first = Untracked
    /\ NoGame

\* frontier.add(Node(state, None, None, cost, h)), the state naming the node
FrontierAdd(cost, h) ==
    /\ pc = "frontier"
    /\ Len(nodes) < MaxNodes
    /\ nodes' = Append(nodes, Node(<<Len(nodes), 0>>, 0, "None", cost, h))
    /\ frontier' = add(frontier, nodes', Len(nodes'))
    /\ UNCHANGED <<text, pc, maze, algorithm, explored, node, result, first>>
    /\ UNCHANGED game

\* node = frontier.remove()
FrontierRemove ==
    /\ pc = "frontier"
    /\ IF remove_raises(frontier)
       THEN /\ result' = Raised("Exception")
            /\ UNCHANGED <<frontier, node>>
       ELSE /\ frontier' = remove(frontier, nodes).frontier
            /\ node' = remove(frontier, nodes).node
            /\ result' = NoResult
    /\ UNCHANGED <<text, pc, maze, algorithm, nodes, explored, first>>
    /\ UNCHANGED game

NextPF ==
    \/ \E cost \in 0..MaxCost, h \in 0..MaxHeuristic : FrontierAdd(cost, h)
    \/ FrontierRemove

SpecPF == InitPF /\ [][NextPF]_vars

\* the same use of a StackFrontier and of a QueueFrontier
InitSQ ==
    /\ text = <<>>
    /\ pc = "frontier"
    /\ maze = NoMaze
    /\ algorithm = ""
    /\ nodes = <<>>
    /\ frontier \in {StackFrontier, QueueFrontier}
    /\ explored = {}
    /\ node = 0
    /\ result = NoResult
    /\ first = Untracked
    /\ NoGame

SpecSQ == InitSQ /\ [][NextPF]_vars

----------------------------------------------------------------------------
(* MazeGame: its fields, the click events and the frames.  pc is "game"    *)
(* while run() loops, "crashed" once an exception has left run(), "quit"   *)
(* after the QUIT event.                                                   *)

SCREEN_WIDTH == 1000
SCREEN_HEIGHT == 800

\* where a click lands: on one of the seven buttons or on none of them (the
\* rectangles of setup_menu and setup_algorithm_buttons do not overlap)
Regions ==
    {"easy", "medium", "hard", "bfs", "dfs", "greedy", "astar", "elsewhere"}

\* a level file as open() finds it at a click: missing, or its lines
NoFile == [exists |-> FALSE, lines |-> <<>>]
File(lines) == [exists |-> TRUE, lines |-> lines]

\* the texts of the well-formed mazes of at most n cells
ValidTexts(n) ==
    UNION {UNION {{MazeText(s[1], s[2], p[1], p[2], walls) :
                      walls \in SUBSET (Cells(s[1], s[2]) \ {p[1], p[2]})} :
                  p \in Ends(s[1], s[2])} :
           s \in Shapes(n)}

\* the level files of SpecGame: a missing one, an empty one, one whose first
\* line is blank, one with no goal, and the well-formed ones
GameFiles(n) ==
    {NoFile, File(<<>>), File(<< <<>>, <<"A", "B">> >>), File(<< <<"A", ".">> >>)}
        \cup {File(t) : t \in ValidTexts(n)}

\* the MazeGame object the handlers work on; raised: an exception left the
\* handler
Self ==
    [state |-> game_state, maze |-> maze, solution |-> solution,
     current_step |-> current_step, cell_size |-> cell_size, raised |-> FALSE]

Min2(a, b) == IF a <= b THEN a ELSE b

\* calculate_cell_size raises ZeroDivisionError
calculate_cell_size_raises(m) == m.width = 0 \/ m.height = 0

calculate_cell_size(m) ==
    Min2((SCREEN_WIDTH - 200) \div m.width, (SCREEN_HEIGHT - 100) \div m.height)

\* start_game(filename): whatever is raised inside is caught and printed
start_game(g, file) ==
    IF ~file.exists \/ Maze_init_raises(file.lines) THEN g
    ELSE LET m == Maze_init(file.lines)
         IN  [g EXCEPT !.maze = m,
                       !.solution = ReturnedNone,
                       !.current_step = 0,
                       !.state = "solving",
                       !.cell_size = IF calculate_cell_size_raises(m) THEN @
                                     ELSE calculate_cell_size(m)]

\* handle_menu_click(pos), file being the level file of the button hit
handle_menu_click(g, region, file) ==
    IF region \in {"easy", "medium", "hard"} THEN start_game(g, file) ELSE g

\* faulty variant of handle_solving_click: self.solution = None left out of
\* the else branch
handle_solving_click_stale(g, region) ==
    IF region \in {"bfs", "dfs", "greedy", "astar"}
    THEN LET r == solve(g.maze, region)
         IN  IF r.kind = "error" THEN [g EXCEPT !.raised = TRUE]
             ELSE [g EXCEPT !.solution = r, !.current_step = 0]
    ELSE [g EXCEPT !.state = "menu", !.maze = NoMaze, !.current_step = 0]

\* handle_solving_click(pos); an exception of solve leaves the handler
\* before current_step is set
handle_solving_click(g, region) ==
    IF region \in {"bfs", "dfs", "greedy", "astar"}
    THEN LET r == solve(g.maze, region)
         IN  IF r.kind = "error" THEN [g EXCEPT !.raised = TRUE]
             ELSE [g EXCEPT !.solution = r, !.current_step = 0]
    ELSE [g EXCEPT !.state = "menu", !.maze = NoMaze,
                   !.solution = ReturnedNone, !.current_step = 0]

InitGame ==
    /\ text = <<>>
    /\ pc = "game"
    /\ maze = NoMaze
    /\ algorithm = ""
    /\ nodes = <<>>
    /\ frontier = NoFrontier
    /\ explored = {}
    /\ node = 0
    /\ result = NoResult
    /\ first = Untracked
    /\ game_state = "menu"
    /\ solution = ReturnedNone
    /\ current_step = 0
    /\ cell_size = -1
    /\ click = NoClick

\* what a click handler leaves behind in the fields of the game
Handled(g, region) ==
    /\ game_state' = g.state
    /\ maze' = g.maze
    /\ solution' = g.solution
    /\ current_step' = g.current_step
    /\ cell_size' = g.cell_size
    /\ pc' = IF g.raised THEN "crashed" ELSE "game"
    /\ click' = [state |-> game_state, region |-> region,
                 solved |-> solution # ReturnedNone]
    /\ UNCHANGED <<text, algorithm, nodes, frontier, explored, node, result, first>>

\* handle_events on a MOUSEBUTTONDOWN event landing in region, in state
\* 'menu'
MenuClick(region, file) ==
    /\ pc = "game"
    /\ game_state = "menu"
    /\ Handled(handle_menu_click(Self, region, file), region)

\* the same in state 'solving'
SolvingClick(region) ==
    /\ pc = "game"
    /\ game_state = "solving"
    /\ Handled(handle_solving_click(Self, region), region)

\* draw() of one frame: in state 'solving' draw_maze, which raises
\* AttributeError when cell_size was never set and else shows one more step
\* of the solution if any is left; in state 'menu' nothing changes
draw(g) ==
    IF g.state = "solving" /\ g.maze # NoMaze
    THEN IF g.cell_size = -1 THEN [g EXCEPT !.raised = TRUE]
         ELSE IF g.solution.kind = "path" /\ g.solution.cells # <<>>
                    /\ g.current_step < Len(g.solution.cells) - 1
              THEN [g EXCEPT !.current_step = @ + 1]
              ELSE g
    ELSE g

\* run() on a QUIT event: handle_events returns False, draw() runs once
\* more and the loop ends, unless draw() raises
Quit ==
    /\ pc = "game"
    /\ LET g == draw(Self)
       IN  /\ current_step' = g.current_step
           /\ pc' = IF g.raised THEN "crashed" ELSE "quit"
    /\ UNCHANGED <<text, maze, algorithm, nodes, frontier, explored, node,
                   result, first, game_state, solution, cell_size, click>>

\* a frame of run() after its events are handled: draw()
Draw ==
    /\ pc = "game"
    /\ LET g == draw(Self)
       IN  /\ current_step' = g.current_step
           /\ pc' = IF g.raised THEN "crashed" ELSE pc
    /\ UNCHANGED <<text, maze, algorithm, nodes, frontier, explored, node,
                   result, first, game_state, solution, cell_size, click>>

NextGame ==
    \/ \E region \in Regions : \E file \in GameFiles(GameCells) :
          MenuClick(region, file)
    \/ \E region \in Regions : SolvingClick(region)
    \/ Quit
    \/ Draw

SpecGame == InitGame /\ [][NextGame]_vars

----------------------------------------------------------------------------
(* What the claims speak of, defined on the grid alone *)

\* s[1..n] holds char how many times
RECURSIVE CountIn(_, _)
CountIn(row, char) ==
    IF row = <<>> THEN 0
    ELSE (IF Head(row) = char THEN 1 ELSE 0) + CountIn(Tail(row), char)

RECURSIVE CountChar(_, _)
CountChar(grid, char) ==
    IF grid = <<>> THEN 0
    ELSE CountIn(Head(grid), char) + CountChar(Tail(grid), char)

Rectangular(grid) == \A r \in 1..Len(grid) : Len(grid[r]) = Len(grid[1])

\* a valid maze: a rectangular grid with one start and one goal
ValidMaze(m) ==
    /\ m.height > 0
    /\ m.width > 0
    /\ Rectangular(m.grid)
    /\ CountChar(m.grid, "A") = 1
    /\ CountChar(m.grid, "B") = 1

\* the cells of the grid that are no wall
OpenCells(m) ==
    {p \in Cells(m.width, m.height) : m.grid[p[2] + 1][p[1] + 1] # "#"}

\* one axis-aligned step apart
Adjacent(p, q) == Abs(p[1] - q[1]) + Abs(p[2] - q[2]) = 1

\* seen, and the open cells one step from it
Grow(m, seen) ==
    seen \cup {q \in OpenCells(m) : \E p \in seen : Adjacent(p, q)}

\* the open cells reachable from the start
RECURSIVE Closure(_, _)
Closure(m, seen) ==
    IF Grow(m, seen) = seen THEN seen ELSE Closure(m, Grow(m, seen))

ReachableCells(m) == Closure(m, {m.start})

\* the least number of steps from the cells of seen (d steps from the start)
\* to the goal, -1 when there is no way
RECURSIVE StepsFrom(_, _, _)
StepsFrom(m, seen, d) ==
    IF m.end \in seen THEN d
    ELSE IF Grow(m, seen) = seen THEN -1
    ELSE StepsFrom(m, Grow(m, seen), d + 1)

ShortestLen(m) == StepsFrom(m, {m.start}, 0)

GoalReachable(m) == ShortestLen(m) >= 0

\* a solve call has ended, by return or by raise
Ended == pc \in {"returned", "raised"}

\* a path of open cells, each one step from the one before, the first one
\* step from the start
ValidPath(m, cells) ==
    /\ \A i \in 1..Len(cells) : cells[i] \in OpenCells(m)
    /\ \A i \in 1..Len(cells) :
          Adjacent(IF i = 1 THEN m.start ELSE cells[i - 1], cells[i])

----------------------------------------------------------------------------
(* Claims *)

\* C1: on a valid maze whose goal is reachable, solve('astar') returns a
\* path as long as the shortest way from start to goal.
C1_AStarShortest ==
    (Ended /\ algorithm = "astar" /\ ValidMaze(maze) /\ GoalReachable(maze))
        => (result.kind = "path" /\ Len(result.cells) = ShortestLen(maze))

\* C2: on a valid maze whose goal is reachable, solve('bfs') returns a path
\* as long as the shortest way from start to goal.
C2_BfsShortest ==
    (Ended /\ algorithm = "bfs" /\ ValidMaze(maze) /\ GoalReachable(maze))
        => (result.kind = "path" /\ Len(result.cells) = ShortestLen(maze))

\* bfs has returned a shortest path of at least four steps
C2_Witness ==
    /\ pc = "returned" /\ algorithm = "bfs" /\ ValidMaze(maze)
    /\ result.kind = "path"
    /\ Len(result.cells) = ShortestLen(maze)
    /\ Len(result.cells) >= 4

\* C3: on a valid maze whose goal is reachable, solve('dfs') and
\* solve('greedy') return a path, and a valid one: open cells in bounds, each
\* one axis-aligned step from the one before and the first from the start.
C3_DfsGreedyValidPath ==
    (Ended /\ algorithm \in {"dfs", "greedy"} /\ ValidMaze(maze)
           /\ GoalReachable(maze))
        => (result.kind = "path" /\ ValidPath(maze, result.cells))

\* dfs has returned a valid path longer than the shortest one, past a wall
C3_Witness ==
    /\ pc = "returned" /\ algorithm = "dfs" /\ ValidMaze(maze)
    /\ result.kind = "path"
    /\ ValidPath(maze, result.cells)
    /\ Len(result.cells) > ShortestLen(maze)
    /\ CountChar(maze.grid, "#") > 0

\* C4: when the goal is not reachable, solve returns None, by a normal
\* return and not by a raise, whichever of the four algorithms runs.
C4_UnreachableNone ==
    (Ended /\ algorithm \in Algorithms /\ ValidMaze(maze)
           /\ ~GoalReachable(maze))
        => (pc = "returned" /\ result.kind = "nopath")

\* the grid "A..", "###", "..B": greedy has returned None
C4_Witness ==
    /\ text = << <<"A", ".", ".">>, <<"#", "#", "#">>, <<".", ".", "B">> >>
    /\ pc = "returned" /\ algorithm = "greedy"
    /\ result.kind = "nopath"

\* C5: when the goal is not reachable, the explored set at the end of solve
\* is the set of the open cells reachable from the start, the start included.
C5_ExploredIsReachable ==
    (pc = "returned" /\ algorithm \in Algorithms /\ ValidMaze(maze)
           /\ ~GoalReachable(maze))
        => explored = ReachableCells(maze)

\* a search that gave up after exploring four cells, others being cut off
C5_Witness ==
    /\ pc = "returned" /\ algorithm \in Algorithms /\ ValidMaze(maze)
    /\ ~GoalReachable(maze)
    /\ explored = ReachableCells(maze)
    /\ Cardinality(explored) >= 4
    /\ Cardinality(OpenCells(maze)) > Cardinality(explored) + 1

\* C6: a text with no 'A', or no 'B', or rows of unequal length (after the
\* trimming the loader does) makes the Maze constructor fail, and no Maze
\* object comes of it.
Malformed(lines) ==
    \/ CountChar(lines, "A") = 0
    \/ CountChar(lines, "B") = 0
    \/ ~Rectangular(load_maze(lines))

C6_MalformedRejected ==
    (pc # "new" /\ Malformed(text)) => (pc = "loadfail" /\ maze = NoMaze)

\* C7: a returned path runs from the cell after the start through the goal:
\* it ends at the goal, starts at an open neighbour of the start, goes by
\* single steps, holds neither the start nor any cell twice; "A.B" gives
\* [(1,0),(2,0)].
C7_PathShape ==
    (pc = "returned" /\ result.kind = "path") =>
        LET c == result.cells
        IN  /\ c # <<>> =>
                  /\ c[Len(c)] = maze.end
                  /\ c[1] \in OpenCells(maze)
                  /\ Adjacent(maze.start, c[1])
            /\ ValidPath(maze, c)
            /\ \A i \in 1..Len(c) : c[i] # maze.start
            /\ \A i, j \in 1..Len(c) : i # j => c[i] # c[j]
            /\ text = << <<"A", ".", "B">> >> => c = << <<1, 0>>, <<2, 0>> >>

\* the grid "A.B": dfs has returned [(1,0),(2,0)]
C7_Witness ==
    /\ text = << <<"A", ".", "B">> >>
    /\ pc = "returned" /\ algorithm = "dfs"
    /\ result = Returned(<< <<1, 0>>, <<2, 0>> >>)

\* C8: whatever solve calls came before, a call with the algorithm of the
\* first call ends as the first call did (same path, same None, same error),
\* and the Maze object stays as the constructor made it.
C8_Deterministic ==
    /\ (Ended /\ first # Unset /\ first # Untracked /\ algorithm = first.alg)
          => result = first.result
    /\ pc \in {"idle", "loop", "returned", "raised"} => maze = Maze_init(text)

\* a third call, after one with another algorithm, has returned the path the
\* first astar call returned
C8_Witness ==
    /\ pc = "returned" /\ algorithm = "astar"
    /\ first.alg = "astar" /\ first.calls = 3 /\ first.mixed
    /\ result.kind = "path" /\ Len(result.cells) >= 3
    /\ result = first.result

\* C9: with an algorithm name that is none of the four, solve (on a maze
\* that has its start and its goal) raises the unknown-algorithm error
\* before it creates a frontier or removes a node, and returns nothing.
C9_UnknownAlgorithm ==
    (pc \in {"loop", "returned", "raised"}
        /\ algorithm \notin {"bfs", "dfs", "greedy", "astar"}
        /\ maze.start # None /\ maze.end # None)
        => /\ pc = "raised"
           /\ result = Raised("ValueError")
           /\ frontier = NoFrontier
           /\ explored = {}
           /\ node = 0

\* solve('dijkstra') on a valid maze has raised ValueError with only the
\* root node built
C9_Witness ==
    /\ pc = "raised" /\ algorithm = "dijkstra"
    /\ ValidMaze(maze)
    /\ result = Raised("ValueError")
    /\ Len(nodes) = 1

\* the nodes resident in a priority frontier
Resident(f) == {f.frontier[i][3] : i \in 1..Len(f.frontier)}

\* C10: every remove on a PriorityFrontier returns a resident node of least
\* cost + heuristic, the earliest added one among those of that value (nodes
\* are added in the order of their creation), and deletes that node alone.
C10_PriorityOrder ==
    [][(frontier.kind = "priority"
            /\ Len(frontier'.frontier) < Len(frontier.frontier))
        => /\ node' \in Resident(frontier)
           /\ \A k \in Resident(frontier) :
                 /\ nodes[node'].cost + nodes[node'].heuristic
                        <= nodes[k].cost + nodes[k].heuristic
                 /\ nodes[node'].cost + nodes[node'].heuristic
                        = nodes[k].cost + nodes[k].heuristic => node' <= k
           /\ Resident(frontier') = Resident(frontier) \ {node'}
           /\ Len(frontier'.frontier) = Len(frontier.frontier) - 1]_vars

\* remove has returned a node while a node of the same cost + heuristic
\* added later, and a node of a larger one added earlier, stay resident
C10_Witness ==
    /\ pc = "frontier" /\ node # 0
    /\ \E k \in Resident(frontier) :
          /\ k > node
          /\ nodes[k].cost + nodes[k].heuristic
                = nodes[node].cost + nodes[node].heuristic
          /\ nodes[k].cost # nodes[node].cost
    /\ \E j \in Resident(frontier) :
          /\ j < node
          /\ nodes[j].cost + nodes[j].heuristic
                > nodes[node].cost + nodes[node].heuristic

\* C11: whatever adds and removes came before, remove on a non-empty
\* StackFrontier returns the resident node added last and remove on a
\* non-empty QueueFrontier the resident node added first (nodes are added in
\* the order of their creation); that node alone is deleted and the others
\* keep their order.
C11_StackQueueOrder ==
    [][(frontier.kind \in {"stack", "queue"}
            /\ Len(frontier'.frontier) < Len(frontier.frontier))
        => LET f == frontier.frontier
               Held == {f[i] : i \in 1..Len(f)}
               Others(k) == k # node'
           IN  /\ node' \in Held
               /\ frontier.kind = "stack" => \A k \in Held : k <= node'
               /\ frontier.kind = "queue" => \A k \in Held : k >= node'
               /\ frontier'.frontier = SelectSeq(f, Others)]_vars

\* a stack that gave back node 4, added after node 2 was removed, and still
\* holds nodes 1 and 3 in that order
C11_Witness ==
    /\ pc = "frontier" /\ frontier.kind = "stack"
    /\ Len(nodes) = 4 /\ node = 4
    /\ frontier.frontier = <<1, 3>>

\* the cell an action leads to from the cell p
Step(p, action) ==
    CASE action = "up" -> <<p[1], p[2] - 1>>
      [] action = "down" -> <<p[1], p[2] + 1>>
      [] action = "left" -> <<p[1] - 1, p[2]>>
      [] action = "right" -> <<p[1] + 1, p[2]>>
      [] OTHER -> p

\* the actions recorded on the parent chain of node n, the root's side first
RECURSIVE ChainActions(_, _)
ChainActions(ns, n) ==
    IF ns[n].parent = 0 THEN <<>>
    ELSE Append(ChainActions(ns, ns[n].parent), ns[n].action)

\* the cells visited by taking the actions acts one after the other from p
RECURSIVE Walk(_, _)
Walk(p, acts) ==
    IF acts = <<>> THEN <<>>
    ELSE <<Step(p, Head(acts))>> \o Walk(Step(p, Head(acts)), Tail(acts))

\* C12: when solve has returned a path, taking from the start the actions
\* recorded on the parent chain of the goal node (up: y-1, down: y+1, left:
\* x-1, right: x+1) visits the cells of the returned path, in its order, and
\* ends at the goal.
C12_ActionsRoundTrip ==
    (pc = "returned" /\ result.kind = "path") =>
        /\ \E g \in 1..Len(nodes) : nodes[g].state = maze.end
        /\ \A g \in 1..Len(nodes) :
              nodes[g].state = maze.end =>
                  LET cells == Walk(maze.start, ChainActions(nodes, g))
                  IN  /\ cells = result.cells
                      /\ cells # <<>> => cells[Len(cells)] = maze.end

\* a returned path of at least five cells whose goal node's chain records
\* the four actions, and whose walk from the start ends at the goal
C12_Witness ==
    /\ pc = "returned" /\ result.kind = "path" /\ Len(result.cells) >= 5
    /\ \E g \in 1..Len(nodes) :
          /\ nodes[g].state = maze.end
          /\ {ChainActions(nodes, g)[i] : i \in 1..Len(result.cells)}
                = {"up", "down", "left", "right"}
          /\ Walk(maze.start, ChainActions(nodes, g)) = result.cells

\* C14: in a solve run with one of the four algorithms, every iteration of
\* the loop calls remove on a frontier that holds a node, and the run never
\* ends or stands with the "empty frontier" exception.
C14_NoEmptyFrontierError ==
    (pc \in {"loop", "returned", "raised"}
        /\ algorithm \in {"bfs", "dfs", "greedy", "astar"})
        => /\ result # Raised("Exception")
           /\ (pc = "loop" /\ Searching(frontier)) => Len(frontier.frontier) > 0

\* a search that removed every node it had created, five or more, found the
\* frontier empty and returned None
C14_Witness ==
    /\ pc = "returned" /\ algorithm \in {"bfs", "dfs", "greedy", "astar"}
    /\ result = ReturnedNone
    /\ Len(nodes) >= 5
    /\ Len(frontier.frontier) = 0

\* the node references a frontier holds, in the order of its list
FrontierNodes(f) ==
    [i \in 1..Len(f.frontier) |->
        IF f.kind = "priority" THEN f.frontier[i][3] ELSE f.frontier[i]]

\* the states of the nodes a frontier holds
FrontierStates(f, ns) ==
    {ns[FrontierNodes(f)[i]].state : i \in 1..Len(f.frontier)}

\* the open cells one step from the cell p
OpenAround(m, p) == {q \in OpenCells(m) : Adjacent(p, q)}

\* C15: at the head of every iteration of the search loop, whichever of the
\* four algorithms runs, no two nodes in the frontier have the same state and
\* no node in the frontier has an explored state.
C15_FrontierStatesFresh ==
    (pc = "loop" /\ algorithm \in {"bfs", "dfs", "greedy", "astar"}) =>
        LET held == FrontierNodes(frontier)
        IN  /\ \A i, j \in 1..Len(held) :
                  i # j => nodes[held[i]].state # nodes[held[j]].state
            /\ \A i \in 1..Len(held) : nodes[held[i]].state \notin explored

\* the node just expanded has a neighbour that was skipped because a node
\* made from another parent holds it in the frontier, and one that was
\* skipped because it is explored
C15_Witness ==
    /\ pc = "loop" /\ node # 0 /\ Len(frontier.frontier) >= 2
    /\ \E i \in 1..Len(frontier.frontier) :
          LET k == FrontierNodes(frontier)[i]
          IN  /\ nodes[k].state \in OpenAround(maze, nodes[node].state)
              /\ nodes[k].parent # node
    /\ OpenAround(maze, nodes[node].state) \cap explored # {}
    /\ C15_FrontierStatesFresh

\* C16: within one solve run no step takes a state out of the explored set,
\* a node is removed from the frontier only if its state has not been
\* explored, no two removed nodes have the same state, and no node made in
\* a step has an explored state.
C16_ExploredOnce ==
    [][(pc = "loop" /\ algorithm \in {"bfs", "dfs", "greedy", "astar"}) =>
        LET before == FrontierNodes(frontier)
            after == {FrontierNodes(frontier')[i] : i \in 1..Len(frontier'.frontier)}
            gone == (1..Len(nodes')) \ after
        IN  /\ explored \subseteq explored'
            /\ \A i \in 1..Len(before) :
                  before[i] \notin after => nodes[before[i]].state \notin explored
            /\ \A j, k \in gone : j # k => nodes'[j].state # nodes'[k].state
            /\ \A k \in (Len(nodes) + 1)..Len(nodes') :
                  nodes'[k].state \notin explored']_vars

\* five cells are explored, and the node just expanded has two explored
\* neighbours, none of them back in the frontier
C16_Witness ==
    /\ pc = "loop" /\ node # 0
    /\ Cardinality(explored) >= 5
    /\ Cardinality(OpenAround(maze, nodes[node].state) \cap explored) >= 2
    /\ FrontierStates(frontier, nodes) \cap explored = {}

\* the nodes solve has removed from the frontier so far: every node made was
\* added once, so they are the nodes made that the frontier does not hold
Removals == Len(nodes) - Len(frontier.frontier)

\* C17: on a valid maze every step of a solve run with one of the four
\* algorithms either returns a path or None, or is an iteration that removes
\* one more node and goes on, and the nodes removed never outnumber the open
\* cells of the grid: the run ends within that many iterations.
C17_Terminates ==
    [][(pc = "loop" /\ algorithm \in {"bfs", "dfs", "greedy", "astar"}) =>
        /\ Removals' <= Cardinality(OpenCells(maze))
        /\ \/ pc' = "returned" /\ result'.kind \in {"path", "nopath"}
           \/ pc' = "loop" /\ Removals' = Removals + 1]_vars

\* a run that ended after as many removals as the grid has open cells, five
\* or more
C17_Witness ==
    /\ pc = "returned" /\ algorithm \in {"bfs", "dfs", "greedy", "astar"}
    /\ Removals = Cardinality(OpenCells(maze))
    /\ Removals >= 5

\* the Manhattan distance of two cells
Manhattan(p, q) == Abs(p[1] - q[1]) + Abs(p[2] - q[2])

\* the number of parent links from node n to the root
RECURSIVE Depth(_, _)
Depth(ns, n) == IF ns[n].parent = 0 THEN 0 ELSE 1 + Depth(ns, ns[n].parent)

\* C18: the root solve makes has no parent, cost 0 and the Manhattan distance
\* from start to goal as heuristic, whatever the algorithm name; a child has
\* cost = parent's cost + 1 and heuristic 0 under bfs and dfs, cost 0 and the
\* Manhattan distance from its cell to the goal under greedy, cost = parent's
\* cost + 1 and that distance under astar; so under bfs, dfs and astar a
\* node's cost is the number of parent links from it to the root.
C18_CostPolicy ==
    (pc \in {"loop", "returned", "raised"} /\ nodes # <<>>) =>
        /\ nodes[1].parent = 0
        /\ nodes[1].state = maze.start
        /\ nodes[1].cost = 0
        /\ nodes[1].heuristic = Manhattan(maze.start, maze.end)
        /\ \A k \in 2..Len(nodes) :
              LET n == nodes[k]
                  toGoal == Manhattan(n.state, maze.end)
              IN  /\ n.parent \in 1..(k - 1)
                  /\ algorithm \in {"bfs", "dfs"} =>
                        /\ n.cost = nodes[n.parent].cost + 1
                        /\ n.heuristic = 0
                        /\ n.cost = Depth(nodes, k)
                  /\ algorithm = "greedy" =>
                        n.cost = 0 /\ n.heuristic = toGoal
                  /\ algorithm = "astar" =>
                        /\ n.cost = nodes[n.parent].cost + 1
                        /\ n.heuristic = toGoal
                        /\ n.cost = Depth(nodes, k)

\* a greedy run has made a node four links from the root, of cost 0, three
\* steps from the goal
C18_Witness ==
    /\ pc \in {"loop", "returned"} /\ algorithm = "greedy"
    /\ \E k \in 2..Len(nodes) :
          /\ Depth(nodes, k) = 4
          /\ nodes[k].cost = 0
          /\ nodes[k].heuristic = 3
          /\ Manhattan(nodes[k].state, maze.end) = 3

\* the place of an action in the order up, down, left, right
Rank(action) ==
    CASE action = "up" -> 1
      [] action = "down" -> 2
      [] action = "left" -> 3
      [] action = "right" -> 4
      [] OTHER -> 0

\* what C19 says of the list r that neighbors gives for the cell p
NeighborsAsSaid(m, p, r) ==
    /\ \A i \in 1..Len(r) :
          /\ Rank(r[i][1]) > 0
          /\ r[i][2] = Step(p, r[i][1])
          /\ r[i][2] \in OpenCells(m)
    /\ \A q \in OpenAround(m, p) : \E i \in 1..Len(r) : r[i][2] = q
    /\ \A i, j \in 1..Len(r) : i < j => Rank(r[i][1]) < Rank(r[j][1])

\* C19: for every cell of a valid maze, neighbors gives the cells one step
\* up (y-1), down (y+1), left (x-1) and right (x+1) of it that are in bounds
\* and no wall, all of them and no other, each with its action, in the
\* order up, down, left, right; so too for the cell solve has just expanded.
C19_Neighbors ==
    /\ pc = "idle" =>
          \A p \in Cells(maze.width, maze.height) :
              NeighborsAsSaid(maze, p, neighbors(maze, p))
    /\ (pc = "loop" /\ node # 0) =>
          NeighborsAsSaid(maze, nodes[node].state,
                          neighbors(maze, nodes[node].state))

\* solve has expanded a cell with a wall below it: neighbors gave its up,
\* left and right cells, in that order
C19_Witness ==
    /\ pc = "loop" /\ node # 0
    /\ LET p == nodes[node].state
           r == neighbors(maze, p)
       IN  /\ [i \in 1..Len(r) |-> r[i][1]] = <<"up", "left", "right">>
           /\ p[2] + 1 < maze.height
           /\ maze.grid[p[2] + 2][p[1] + 1] = "#"
           /\ r[1][2] = <<p[1], p[2] - 1>>
           /\ r[2][2] = <<p[1] - 1, p[2]>>
           /\ r[3][2] = <<p[1] + 1, p[2]>>

\* C20: whatever clicks MazeGame has handled (on menu buttons, on algorithm
\* buttons, elsewhere, with loads that fail): state is 'menu' exactly when
\* maze is None; solution is None whenever state is 'menu'; and once a click
\* in state 'solving' that hit no algorithm button is handled, state is
\* 'menu', maze and solution are None and current_step is 0.
C20_MenuIffNoMaze ==
    pc \in {"game", "crashed", "quit"} =>
        /\ game_state \in {"menu", "solving"}
        /\ (game_state = "menu") <=> (maze = NoMaze)
        /\ game_state = "menu" => solution = ReturnedNone
        /\ (click.state = "solving"
                /\ click.region \notin {"bfs", "dfs", "greedy", "astar"})
            => /\ game_state = "menu"
               /\ maze = NoMaze
               /\ solution = ReturnedNone
               /\ current_step = 0

\* a click on no algorithm button, handled in 'solving' while a solution was
\* shown, has led back to the menu with everything cleared
C20_Witness ==
    /\ pc = "game"
    /\ click = [state |-> "solving", region |-> "elsewhere", solved |-> TRUE]
    /\ game_state = "menu"
    /\ maze = NoMaze
    /\ solution = ReturnedNone
    /\ current_step = 0
    /\ cell_size > 0

====
